---- MODULE Spec2Model ----
(***************************************************************************)
(* A model of the Andersen points-to analysis' node factory                *)
(* (AndersNodeFactory, NodeFactory.cpp), its constant resolution and its   *)
(* byte-offset -> field-number computation, and of the worklist solver     *)
(* the architecture contract describes.                                    *)
(***************************************************************************)
EXTENDS Integers, Sequences, FiniteSets, TLC

(***************************************************************************)
(* Bounds of the model.                                                    *)
(***************************************************************************)
\* creation calls explored after construction (factory specification)
MaxCreates == 4

\* creation calls explored before constants are resolved
MaxConstCreates == 2

\* nesting depth of the constant expressions handed to the lookups
MaxDepth == 2

\* constant structured accesses reach byte offsets 0, 4, ..., 4 * MaxGepIndex
MaxGepIndex == 2

\* byte offsets handed to offsetToFieldNum
MaxOffset == 24

\* the solver's node universe and the size of the constraint set
NumValueNodes == 2

NumObjNodes == 2

MaxConstraints == 3

(***************************************************************************)
(* Program entities (pointers to llvm::Value): "g" is a global variable,   *)
(* "f" is a function (both are GlobalValues); nullptr is the empty entity. *)
(***************************************************************************)
nullptr == "nullptr"

NULL == "NULL"

Globals == {"g", "f"}

Functions == {"f"}

\* what the creation calls may be handed: an entity or nothing
Values == Globals \cup {nullptr}

FunctionPtrs == Functions \cup {nullptr}

VALUE_NODE == "VALUE_NODE"

OBJ_NODE == "OBJ_NODE"

\* The "not found" index: the largest unsigned value, 2^32 - 1, written here
\* as its two's-complement reading, so that unsigned addition on it wraps as
\* integer addition does (InvalidIndex + k = k - 1 modulo 2^32).
InvalidIndex == -1

\* AndersNode(type, idx, val = nullptr)
AndersNode(type, idx, val) == [type |-> type, idx |-> idx, val |-> val]

EmptyMap == [e \in {} |-> 0]

\* std::map::operator[] assignment: map[key] = idx
MapPut(map, key, idx) == [e \in (DOMAIN map) \cup {key} |-> IF e = key THEN idx ELSE map[e]]

\* std::map::find: the mapped index, or InvalidIndex at end()
MapFind(map, key) == IF key \in DOMAIN map THEN map[key] ELSE InvalidIndex

\* what a call hands back: an index, or the run is aborted (assert / unreachable)
Returned(idx) == [ok |-> TRUE, idx |-> idx]

Fatal == [ok |-> FALSE, idx |-> 0]

\* the node factory: its table, its four maps, whether the run was aborted,
\* and the call in progress
VARIABLES nodes, valueNodeMap, objNodeMap, returnMap, varargMap, aborted, call

\* the factory's pointer to the layout oracle: NULL until the pass sets it
VARIABLES dataLayout

\* history: the creation calls that returned, each with the index it returned
VARIABLES created

\* a call of offsetToFieldNum: its arguments and the state of its loop
VARIABLES otfCall, loop

\* the analysis pass: the constraints collected, and the solver's points-to
\* sets, copy edges and worklist
VARIABLES phase, constraints, ptsTo, copyEdges, worklist

solverVars == <<phase, constraints, ptsTo, copyEdges, worklist>>

factoryVars == <<nodes, valueNodeMap, objNodeMap, returnMap, varargMap, aborted, dataLayout, created>>

otfVars == <<otfCall, loop>>

(***************************************************************************)
(* The layout oracle (llvm::DataLayout, StructAnalyzer) over a fixed set   *)
(* of well-formed types: every type has a nonzero allocation size and no   *)
(* structure needs padding.                                                *)
(***************************************************************************)
Scalar(size) == [kind |-> "scalar", size |-> size, elem |-> "", count |-> 0, elems |-> <<>>]

Array(elem, count) == [kind |-> "array", size |-> 0, elem |-> elem, count |-> count, elems |-> <<>>]

Struct(elems) == [kind |-> "struct", size |-> 0, elem |-> "", count |-> 0, elems |-> elems]

TypeNames ==
  {"i32", "i64", "Pair", "Inner", "Outer", "ArrI32", "ArrArr", "ArrInner", "WithArr", "ArrOuter"}

TypeTable ==
  [t \in TypeNames |->
     CASE t = "i32"      -> Scalar(4)
       [] t = "i64"      -> Scalar(8)
       [] t = "Pair"     -> Struct(<<"i64", "i64">>)
       [] t = "Inner"    -> Struct(<<"i32", "i32">>)
       [] t = "Outer"    -> Struct(<<"i32", "Inner", "i32">>)
       [] t = "ArrI32"   -> Array("i32", 3)
       [] t = "ArrArr"   -> Array("ArrI32", 2)
       [] t = "ArrInner" -> Array("Inner", 2)
       [] t = "WithArr"  -> Struct(<<"i32", "ArrInner", "i32">>)
       [] t = "ArrOuter" -> Array("Outer", 2)]

isStructTy(t) == TypeTable[t].kind = "struct"

isArrayTy(t) == TypeTable[t].kind = "array"

\* StructType::getElementType(idx), idx counted from 0
getElementType(t, idx) == TypeTable[t].elems[idx + 1]

NumElements(t) == Len(TypeTable[t].elems)

RECURSIVE getTypeAllocSize(_)
RECURSIVE SumAllocSize(_, _)
\* the allocation sizes of the first n elements of structure t, added up
SumAllocSize(t, n) ==
  IF n = 0 THEN 0 ELSE SumAllocSize(t, n - 1) + getTypeAllocSize(getElementType(t, n - 1))

\* DataLayout::getTypeAllocSize
getTypeAllocSize(t) ==
  CASE TypeTable[t].kind = "scalar" -> TypeTable[t].size
    [] TypeTable[t].kind = "array"  -> TypeTable[t].count * getTypeAllocSize(TypeTable[t].elem)
    [] TypeTable[t].kind = "struct" -> SumAllocSize(t, NumElements(t))

\* StructLayout::getElementOffset(idx)
getElementOffset(t, idx) == SumAllocSize(t, idx)

\* StructLayout::getElementContainingOffset: the last element that starts at or before off
getElementContainingOffset(t, off) ==
  CHOOSE idx \in 0 .. NumElements(t) - 1 :
    /\ getElementOffset(t, idx) <= off
    /\ \A j \in 0 .. NumElements(t) - 1 : getElementOffset(t, j) <= off => j <= idx

RECURSIVE NumFields(_)
RECURSIVE SumFields(_, _)
\* the flattened field counts of the first n elements of structure t, added up
SumFields(t, n) ==
  IF n = 0 THEN 0 ELSE SumFields(t, n - 1) + NumFields(getElementType(t, n - 1))

\* the number of field nodes an object of type t expands to: arrays collapse to
\* one element, nested structures are flattened
NumFields(t) ==
  CASE TypeTable[t].kind = "scalar" -> 1
    [] TypeTable[t].kind = "array"  -> NumFields(TypeTable[t].elem)
    [] TypeTable[t].kind = "struct" -> SumFields(t, NumElements(t))

\* StructInfo::getOffset(idx): the pre-summed logical field ordinal of element idx
StructInfoGetOffset(t, idx) == SumFields(t, idx)

RECURSIVE CollapseArray(_)
\* while (arrayType = dyn_cast<ArrayType>(trueElemType)) trueElemType = its element type
CollapseArray(t) == IF isArrayTy(t) THEN CollapseArray(TypeTable[t].elem) ELSE t

(***************************************************************************)
(* offsetToFieldNum.  A loop state is the loop's three locals and where    *)
(* control is: "test" (at the loop condition) or "return".                 *)
(***************************************************************************)
LoopState(ty, off, r, at, w) ==
  [trueElemType |-> ty, offset |-> off, ret |-> r, at |-> at, warned |-> w]

\* the state on entry: trueElemType is the pointee type, ret = 0
OffsetEntry(pointee, off) == LoopState(pointee, off, 0, "test", FALSE)

\* mutant: the offset is not reduced into one element
ReduceOffset_NoModulo(off, t) == off

\* offset %= dataLayout->getTypeAllocSize(trueElemType)
ReduceOffset(off, t) == off % getTypeAllocSize(t)

\* mutant: the ordinal is assigned, not added
AddOrdinal_Overwrite(r, t, idx) == StructInfoGetOffset(t, idx)

\* ret += stInfo->getOffset(idx)
AddOrdinal(r, t, idx) == r + StructInfoGetOffset(t, idx)

\* offset -= stLayout->getElementOffset(idx)
EnterElement(off, t, idx) == off - getElementOffset(t, idx)

\* mutant: the warning is given but the loop is not left
MiddleOfField_NoBreak(s, t, off) == LoopState(t, off, s.ret, "test", TRUE)

\* if (offset != 0) { warning; break; }
MiddleOfField(s, t, off) == LoopState(t, off, s.ret, "return", TRUE)

\* the loop condition and, when it holds, one run of the loop body
LoopIteration(s) ==
  IF s.offset = 0
    THEN [s EXCEPT !.at = "return"]
    ELSE LET t == CollapseArray(s.trueElemType)
             off == ReduceOffset(s.offset, t)
         IN  IF isStructTy(t)
               THEN LET idx == getElementContainingOffset(t, off)
                    IN  LoopState(getElementType(t, idx),
                                  EnterElement(off, t, idx),
                                  AddOrdinal(s.ret, t, idx),
                                  "test", s.warned)
               ELSE IF off # 0
                      THEN MiddleOfField(s, t, off)
                      ELSE LoopState(t, off, s.ret, "test", s.warned)

RECURSIVE RunLoop(_)
RunLoop(s) == IF s.at = "return" THEN s ELSE RunLoop(LoopIteration(s))

\* offsetToFieldNum(ptr, offset), ptr a pointer to pointee
offsetToFieldNum(pointee, off) == RunLoop(OffsetEntry(pointee, off)).ret

(***************************************************************************)
(* Values as the lookups see them.  A constant expression is a chain of    *)
(* unary operators over a leaf (every operator here reads operand 0        *)
(* only): wraps lists them from the innermost to the outermost.  A leaf   *)
(* is an entity, the null pointer constant, an undefined pointer or an    *)
(* integer constant.                                                       *)
(***************************************************************************)
Leaf(l) == [leaf |-> l, wraps |-> <<>>]

Wrap(c, op, off) == [leaf |-> c.leaf, wraps |-> Append(c.wraps, [op |-> op, off |-> off])]

\* ce->getOpcode()
getOpcode(c) == c.wraps[Len(c.wraps)].op

\* ce->getOperand(0)
getOperand0(c) == [leaf |-> c.leaf, wraps |-> SubSeq(c.wraps, 1, Len(c.wraps) - 1)]

isConstantExpr(c) == c.wraps # <<>>

isGlobalValue(c) == c.wraps = <<>> /\ c.leaf \in Globals

isConstantPointerNull(c) == c.wraps = <<>> /\ c.leaf = "null"

isUndefValue(c) == c.wraps = <<>> /\ c.leaf = "undef"

\* the byte offsets a constant structured access may add (i32-granular)
GepOffsets == {getTypeAllocSize("i32") * k : k \in 0 .. MaxGepIndex}

ConstLeaves == {"null", "undef", "int", "g"}

RECURSIVE isPointerTy(_)
\* isa<PointerType>(c->getType()): the type the IR gives each constant
isPointerTy(c) ==
  IF c.wraps = <<>>
    THEN c.leaf # "int"
    ELSE CASE getOpcode(c) = "gep"           -> TRUE
           [] getOpcode(c) = "inttoptr"      -> TRUE
           [] getOpcode(c) = "addrspacecast" -> TRUE
           [] getOpcode(c) = "ptrtoint"      -> FALSE
           [] getOpcode(c) = "bitcast"       -> isPointerTy(getOperand0(c))

\* the operators the IR lets be applied to c
WrapsOf(c) ==
  IF isPointerTy(c)
    THEN {Wrap(c, "gep", off) : off \in GepOffsets}
           \cup {Wrap(c, op, 0) : op \in {"ptrtoint", "bitcast", "addrspacecast"}}
    ELSE {Wrap(c, op, 0) : op \in {"inttoptr", "bitcast"}}

RECURSIVE ConstantsUpTo(_)
\* the well-typed constants of nesting depth at most d
ConstantsUpTo(d) ==
  IF d = 0
    THEN {Leaf(l) : l \in ConstLeaves}
    ELSE LET below == ConstantsUpTo(d - 1)
         IN  below \cup UNION {WrapsOf(c) : c \in below}

Constants == ConstantsUpTo(MaxDepth)

\* the last call made on the factory: operation, argument, result
Idle == [op |-> "idle", arg |-> Leaf(nullptr), res |-> Returned(0)]

CallOf(op, arg, res) == [op |-> op, arg |-> Leaf(arg), res |-> res]

CallOn(op, c, res) == [op |-> op, arg |-> c, res |-> res]

\* mutant: the universal object is numbered 0, as the comment above its line has it
ReservedNodes_Slip ==
  << AndersNode(VALUE_NODE, 0, nullptr),
     AndersNode(OBJ_NODE, 0, nullptr),
     AndersNode(VALUE_NODE, 2, nullptr),
     AndersNode(OBJ_NODE, 3, nullptr),
     AndersNode(VALUE_NODE, 4, nullptr) >>

\* AndersNodeFactory::AndersNodeFactory(): the five reserved nodes
ReservedNodes ==
  << AndersNode(VALUE_NODE, 0, nullptr),
     AndersNode(OBJ_NODE, 1, nullptr),
     AndersNode(VALUE_NODE, 2, nullptr),
     AndersNode(OBJ_NODE, 3, nullptr),
     AndersNode(VALUE_NODE, 4, nullptr) >>

NumReserved == Len(ReservedNodes)

getUniversalPtrNode == 0

getUniversalObjNode == 1

getNullPtrNode == 2

getNullObjectNode == 3

getIntPtrNode == 4

InitFactory ==
  /\ nodes = ReservedNodes
  /\ valueNodeMap = EmptyMap
  /\ objNodeMap = EmptyMap
  /\ returnMap = EmptyMap
  /\ varargMap = EmptyMap
  /\ aborted = FALSE
  /\ dataLayout = NULL
  /\ created = {}
  /\ call = Idle

\* mutant: the size is read after the node is pushed
NextIdx_AfterPush == Len(nodes) + 1

\* unsigned nextIdx = nodes.size()
NextIdx == Len(nodes)

\* the node table is a 1-based sequence here: position i of the C++ vector is nodes[i + 1]
NodeAt(i) == nodes[i + 1]

\* createValueNode: push the node, then register a non-null entity (assert: not yet mapped)
CreateValueNode(val) ==
  /\ ~aborted
  /\ call = Idle
  /\ nodes' = Append(nodes, AndersNode(VALUE_NODE, NextIdx, val))
  /\ IF val # nullptr /\ val \in DOMAIN valueNodeMap
       THEN /\ aborted' = TRUE
            /\ call' = CallOf("createValueNode", val, Fatal)
            /\ UNCHANGED <<valueNodeMap, created>>
       ELSE /\ aborted' = FALSE
            /\ call' = CallOf("createValueNode", val, Returned(NextIdx))
            /\ created' = created \cup {[op |-> "createValueNode", ent |-> val, idx |-> NextIdx]}
            /\ valueNodeMap' = IF val # nullptr THEN MapPut(valueNodeMap, val, NextIdx)
                                                ELSE valueNodeMap
  /\ UNCHANGED <<objNodeMap, returnMap, varargMap, dataLayout, otfVars, solverVars>>

\* createObjectNode: the same on the object-node map
CreateObjectNode(val) ==
  /\ ~aborted
  /\ call = Idle
  /\ nodes' = Append(nodes, AndersNode(OBJ_NODE, NextIdx, val))
  /\ IF val # nullptr /\ val \in DOMAIN objNodeMap
       THEN /\ aborted' = TRUE
            /\ call' = CallOf("createObjectNode", val, Fatal)
            /\ UNCHANGED <<objNodeMap, created>>
       ELSE /\ aborted' = FALSE
            /\ call' = CallOf("createObjectNode", val, Returned(NextIdx))
            /\ created' = created \cup {[op |-> "createObjectNode", ent |-> val, idx |-> NextIdx]}
            /\ objNodeMap' = IF val # nullptr THEN MapPut(objNodeMap, val, NextIdx)
                                              ELSE objNodeMap
  /\ UNCHANGED <<valueNodeMap, returnMap, varargMap, dataLayout, otfVars, solverVars>>

\* mutant: no assertion, a second mapping overwrites the first
CreateReturnNode_NoAssert(f) ==
  /\ ~aborted
  /\ call = Idle
  /\ nodes' = Append(nodes, AndersNode(VALUE_NODE, NextIdx, f))
  /\ aborted' = FALSE
  /\ call' = CallOf("createReturnNode", f, Returned(NextIdx))
  /\ created' = created \cup {[op |-> "createReturnNode", ent |-> f, idx |-> NextIdx]}
  /\ returnMap' = MapPut(returnMap, f, NextIdx)
  /\ UNCHANGED <<valueNodeMap, objNodeMap, varargMap, dataLayout, otfVars, solverVars>>

\* createReturnNode: no null test, the function pointer itself is the key
CreateReturnNode(f) ==
  /\ ~aborted
  /\ call = Idle
  /\ nodes' = Append(nodes, AndersNode(VALUE_NODE, NextIdx, f))
  /\ IF f \in DOMAIN returnMap
       THEN /\ aborted' = TRUE
            /\ call' = CallOf("createReturnNode", f, Fatal)
            /\ UNCHANGED <<returnMap, created>>
       ELSE /\ aborted' = FALSE
            /\ call' = CallOf("createReturnNode", f, Returned(NextIdx))
            /\ created' = created \cup {[op |-> "createReturnNode", ent |-> f, idx |-> NextIdx]}
            /\ returnMap' = MapPut(returnMap, f, NextIdx)
  /\ UNCHANGED <<valueNodeMap, objNodeMap, varargMap, dataLayout, otfVars, solverVars>>

\* createVarargNode: the same on the vararg map
CreateVarargNode(f) ==
  /\ ~aborted
  /\ call = Idle
  /\ nodes' = Append(nodes, AndersNode(VALUE_NODE, NextIdx, f))
  /\ IF f \in DOMAIN varargMap
       THEN /\ aborted' = TRUE
            /\ call' = CallOf("createVarargNode", f, Fatal)
            /\ UNCHANGED <<varargMap, created>>
       ELSE /\ aborted' = FALSE
            /\ call' = CallOf("createVarargNode", f, Returned(NextIdx))
            /\ created' = created \cup {[op |-> "createVarargNode", ent |-> f, idx |-> NextIdx]}
            /\ varargMap' = MapPut(varargMap, f, NextIdx)
  /\ UNCHANGED <<valueNodeMap, objNodeMap, returnMap, dataLayout, otfVars, solverVars>>

\* getReturnNodeFor / getVarargNodeFor: plain lookups
GetReturnNodeFor(f) ==
  /\ ~aborted
  /\ call = Idle
  /\ call' = CallOf("getReturnNodeFor", f, Returned(MapFind(returnMap, f)))
  /\ UNCHANGED <<factoryVars, otfVars, solverVars>>

GetVarargNodeFor(f) ==
  /\ ~aborted
  /\ call = Idle
  /\ call' = CallOf("getVarargNodeFor", f, Returned(MapFind(varargMap, f)))
  /\ UNCHANGED <<factoryVars, otfVars, solverVars>>

(***************************************************************************)
(* Constant resolution.  An assertion that fails or an unreachable that    *)
(* is reached aborts the run: the result is Fatal.                         *)
(***************************************************************************)
\* the type of the global variable "g": the value type its pointer points to
GlobalType(gv) == "Pair"

RECURSIVE stripPointerCasts(_)
\* Value::stripPointerCasts: pointer casts and all-zero structured accesses are looked through
stripPointerCasts(c) ==
  IF /\ isConstantExpr(c)
     /\ \/ getOpcode(c) \in {"bitcast", "addrspacecast"}
        \/ getOpcode(c) = "gep" /\ c.wraps[Len(c.wraps)].off = 0
    THEN stripPointerCasts(getOperand0(c))
    ELSE c

RECURSIVE GetUnderlyingObject(_)
\* llvm::GetUnderlyingObject with no lookup limit: through structured accesses and casts
GetUnderlyingObject(c) ==
  IF isConstantExpr(c) /\ getOpcode(c) \in {"gep", "bitcast", "addrspacecast"}
    THEN GetUnderlyingObject(getOperand0(c))
    ELSE c

\* dataLayout->getIndexedOffset(pointer operand type, indices): the access's own byte offset
getIndexedOffset(c) == c.wraps[Len(c.wraps)].off

RECURSIVE getGEPOffset(_)
\* getGEPOffset: the offset of a nested constant access below the casts, plus the access's own
getGEPOffset(c) ==
  LET baseValue == stripPointerCasts(getOperand0(c))
      nested == IF isConstantExpr(baseValue) /\ getOpcode(baseValue) = "gep"
                  THEN getGEPOffset(baseValue)
                  ELSE 0
  IN  nested + getIndexedOffset(c)

\* constGEPtoFieldNum: the field number of the whole offset, from the underlying object's type
constGEPtoFieldNum(c) ==
  offsetToFieldNum(GlobalType(GetUnderlyingObject(c).leaf), getGEPOffset(c))

\* getOffsetObjectNode(n, offset): the node offset places after n (unsigned addition)
getOffsetObjectNode(n, off) == Returned(n + off)

RECURSIVE getValueNodeForConstant(_)
getValueNodeForConstant(c) ==
  IF ~isPointerTy(c) THEN Fatal
  ELSE IF isConstantPointerNull(c) \/ isUndefValue(c) THEN Returned(getNullPtrNode)
  ELSE IF isGlobalValue(c) THEN Returned(MapFind(valueNodeMap, c.leaf))
  ELSE IF isConstantExpr(c)
    THEN CASE getOpcode(c) = "gep"      -> Fatal
           [] getOpcode(c) = "inttoptr" -> Returned(getUniversalPtrNode)
           [] getOpcode(c) = "ptrtoint" -> Returned(getIntPtrNode)
           [] getOpcode(c) = "bitcast"  -> getValueNodeForConstant(getOperand0(c))
           [] OTHER                     -> Fatal
  ELSE Fatal

\* getValueNodeFor: constants that are not globals are resolved, the rest looked up
getValueNodeFor(c) ==
  IF ~isGlobalValue(c) THEN getValueNodeForConstant(c)
  ELSE Returned(MapFind(valueNodeMap, c.leaf))

\* mutant: only the null object stops the resolution
isNullOrUniversalObj_NullOnly(idx) == idx = getNullObjectNode

\* baseNode == getNullObjectNode() || baseNode == getUniversalObjNode()
isNullOrUniversalObj(idx) == idx = getNullObjectNode \/ idx = getUniversalObjNode

RECURSIVE getObjectNodeForConstant(_)
getObjectNodeForConstant(c) ==
  IF ~isPointerTy(c) THEN Fatal
  ELSE IF isConstantPointerNull(c) THEN Returned(getNullObjectNode)
  ELSE IF isGlobalValue(c) THEN Returned(MapFind(objNodeMap, c.leaf))
  ELSE IF isConstantExpr(c)
    THEN CASE getOpcode(c) = "gep" ->
                LET baseNode == getObjectNodeForConstant(getOperand0(c))
                IN  IF ~baseNode.ok THEN Fatal
                    ELSE IF isNullOrUniversalObj(baseNode.idx)
                      THEN baseNode
                    ELSE IF dataLayout = NULL THEN Fatal
                    ELSE getOffsetObjectNode(baseNode.idx, constGEPtoFieldNum(c))
           [] getOpcode(c) = "inttoptr" -> Returned(getUniversalObjNode)
           [] getOpcode(c) = "bitcast"  -> getObjectNodeForConstant(getOperand0(c))
           [] OTHER                     -> Fatal
  ELSE Fatal

\* getObjectNodeFor: the same dispatch on the object-node map
getObjectNodeFor(c) ==
  IF ~isGlobalValue(c) THEN getObjectNodeForConstant(c)
  ELSE Returned(MapFind(objNodeMap, c.leaf))

\* a call of getValueNodeFor; it reads the factory and aborts the run when the result is fatal
GetValueNodeFor(c) ==
  /\ ~aborted
  /\ call = Idle
  /\ call' = CallOn("getValueNodeFor", c, getValueNodeFor(c))
  /\ aborted' = ~getValueNodeFor(c).ok
  /\ UNCHANGED <<nodes, valueNodeMap, objNodeMap, returnMap, varargMap, dataLayout, created, otfVars, solverVars>>

GetObjectNodeFor(c) ==
  /\ ~aborted
  /\ call = Idle
  /\ call' = CallOn("getObjectNodeFor", c, getObjectNodeFor(c))
  /\ aborted' = ~getObjectNodeFor(c).ok
  /\ UNCHANGED <<nodes, valueNodeMap, objNodeMap, returnMap, varargMap, dataLayout, created, otfVars, solverVars>>

\* setDataLayout: the pass hands the factory the module's layout
SetDataLayout ==
  /\ ~aborted
  /\ call = Idle
  /\ loop.at = "idle"
  /\ dataLayout = NULL
  /\ dataLayout' = "set"
  /\ UNCHANGED <<nodes, valueNodeMap, objNodeMap, returnMap, varargMap, aborted, created,
                 call, otfVars, solverVars>>

\* the call returns to the caller, which may call again
Return ==
  /\ ~aborted
  /\ call # Idle
  /\ call' = Idle
  /\ UNCHANGED <<factoryVars, otfVars, solverVars>>

(***************************************************************************)
(* offsetToFieldNum as it runs: one step per test of the loop condition.   *)
(***************************************************************************)
NotCalled == LoopState("i32", 0, 0, "idle", FALSE)

InitOffset ==
  /\ otfCall = [pointee |-> "i32", offset |-> 0]
  /\ loop = NotCalled

\* entry: the layout must be there (assert); trueElemType is the pointer's
\* element type, ret = 0
CallOffsetToFieldNum(pointee, off) ==
  /\ ~aborted
  /\ loop.at = "idle"
  /\ otfCall' = [pointee |-> pointee, offset |-> off]
  /\ IF dataLayout = NULL
       THEN /\ loop' = [OffsetEntry(pointee, off) EXCEPT !.at = "aborted"]
            /\ aborted' = TRUE
       ELSE /\ loop' = OffsetEntry(pointee, off)
            /\ aborted' = FALSE
  /\ UNCHANGED <<nodes, valueNodeMap, objNodeMap, returnMap, varargMap, dataLayout,
                 created, call, solverVars>>

\* while (offset > 0) fails: the loop is left
LoopExit ==
  /\ loop.at = "test"
  /\ loop.offset = 0
  /\ loop' = LoopIteration(loop)
  /\ UNCHANGED <<factoryVars, call, otfCall, solverVars>>

\* the body on a structure: into the element that contains the offset
StructStep ==
  /\ loop.at = "test"
  /\ loop.offset > 0
  /\ isStructTy(CollapseArray(loop.trueElemType))
  /\ loop' = LoopIteration(loop)
  /\ UNCHANGED <<factoryVars, call, otfCall, solverVars>>

\* the body on a type that is no structure
ScalarStep ==
  /\ loop.at = "test"
  /\ loop.offset > 0
  /\ ~isStructTy(CollapseArray(loop.trueElemType))
  /\ loop' = LoopIteration(loop)
  /\ UNCHANGED <<factoryVars, call, otfCall, solverVars>>

\* return ret
OffsetReturn ==
  /\ loop.at = "return"
  /\ loop' = [loop EXCEPT !.at = "idle"]
  /\ UNCHANGED <<factoryVars, call, otfCall, solverVars>>

(***************************************************************************)
(* The constraint solver of the architecture contract: a worklist          *)
(* propagation of points-to sets along copy edges, with the copy edges     *)
(* that loads and stores stand for discovered as the sets grow.            *)
(***************************************************************************)
ADDR_OF == "ADDR_OF"

COPY == "COPY"

LOAD == "LOAD"

STORE == "STORE"

\* the solver's nodes: value nodes first, object nodes after them
ValueNodeIds == 1 .. NumValueNodes

ObjNodeIds == (NumValueNodes + 1) .. (NumValueNodes + NumObjNodes)

SolverNodes == ValueNodeIds \cup ObjNodeIds

AndersConstraint(type, dest, src) == [type |-> type, dest |-> dest, src |-> src]

\* the well-formed constraints: address-of takes an object node, the rest
\* relate value nodes
WellFormedConstraints ==
  {AndersConstraint(ADDR_OF, d, o) : d \in ValueNodeIds, o \in ObjNodeIds}
    \cup {AndersConstraint(t, d, v) : t \in {COPY, LOAD, STORE}, d \in ValueNodeIds,
                                      v \in ValueNodeIds}

InitSolver ==
  /\ phase = "collecting"
  /\ constraints = {}
  /\ ptsTo = [n \in SolverNodes |-> {}]
  /\ copyEdges = {}
  /\ worklist = {}

\* collectConstraints: one more constraint is identified
CollectConstraint(c) ==
  /\ phase = "collecting"
  /\ c \notin constraints
  /\ constraints' = constraints \cup {c}
  /\ UNCHANGED <<phase, ptsTo, copyEdges, worklist, factoryVars, call, otfVars>>

\* the points-to sets once the address-of constraints are applied
AddressesTaken(cs) ==
  [n \in SolverNodes |-> {c.src : c \in {x \in cs : x.type = ADDR_OF /\ x.dest = n}}]

\* the copy edges <<src, dest>> the copy constraints give
CopyEdgesOf(cs) == {<<c.src, c.dest>> : c \in {x \in cs : x.type = COPY}}

\* the nodes the solver starts from: those whose set is not empty
InitialWorklist(pts) == {n \in SolverNodes : pts[n] # {}}

\* solveConstraints begins: address-of constraints are applied at load time
StartSolving ==
  /\ phase = "collecting"
  /\ phase' = "iterating"
  /\ ptsTo' = AddressesTaken(constraints)
  /\ copyEdges' = CopyEdgesOf(constraints)
  /\ worklist' = InitialWorklist(AddressesTaken(constraints))
  /\ UNCHANGED <<constraints, factoryVars, call, otfVars>>

\* the copy edges the loads from n and the stores through n stand for, given
\* what n points to
DiscoveredEdges(n) ==
  {<<o, c.dest>> : o \in ptsTo[n], c \in {x \in constraints : x.type = LOAD /\ x.src = n}}
    \cup {<<c.src, o>> : o \in ptsTo[n],
                         c \in {x \in constraints : x.type = STORE /\ x.dest = n}}

\* mutant: the sets flow against the edges
Propagate_Reversed(n, edges) ==
  [m \in SolverNodes |-> IF <<m, n>> \in edges THEN ptsTo[m] \cup ptsTo[n] ELSE ptsTo[m]]

\* the points-to sets after n's set is united into the destination of every
\* edge that leaves n
Propagate(n, edges) ==
  [m \in SolverNodes |-> IF <<n, m>> \in edges THEN ptsTo[m] \cup ptsTo[n] ELSE ptsTo[m]]

\* the nodes to process again: those whose set grew, and the sources of the
\* newly discovered edges
Enqueued(n, pts, fresh) ==
  {m \in SolverNodes : pts[m] # ptsTo[m]} \cup {e[1] : e \in {x \in fresh : x[1] # n}}

\* one node is popped from the worklist and processed
SolveStep(n) ==
  /\ phase = "iterating"
  /\ n \in worklist
  /\ LET fresh == DiscoveredEdges(n) \ copyEdges
         edges == copyEdges \cup fresh
         pts == Propagate(n, edges)
     IN  /\ copyEdges' = edges
         /\ ptsTo' = pts
         /\ worklist' = (worklist \ {n}) \cup Enqueued(n, pts, fresh)
  /\ UNCHANGED <<phase, constraints, factoryVars, call, otfVars>>

\* the worklist is empty: the fixed point is reached
ReachFixedPoint ==
  /\ phase = "iterating"
  /\ worklist = {}
  /\ phase' = "fixed point"
  /\ UNCHANGED <<constraints, ptsTo, copyEdges, worklist, factoryVars, call, otfVars>>

vars ==
  <<nodes, valueNodeMap, objNodeMap, returnMap, varargMap, aborted, dataLayout, call, created,
    otfCall, loop, phase, constraints, ptsTo, copyEdges, worklist>>

Init == InitFactory /\ InitOffset /\ InitSolver

\* the arguments creation calls may still take: none once max nodes were created
While(max, args) == IF Len(nodes) < NumReserved + max THEN args ELSE {}

\* the factory under any interleaving of creation calls and map lookups
Next ==
  \/ \E val \in While(MaxCreates, Values) : CreateValueNode(val)
  \/ \E val \in While(MaxCreates, Values) : CreateObjectNode(val)
  \/ \E f \in While(MaxCreates, FunctionPtrs) : CreateReturnNode(f)
  \/ \E f \in While(MaxCreates, FunctionPtrs) : CreateVarargNode(f)
  \/ \E gv \in Globals : GetValueNodeFor(Leaf(gv))
  \/ \E gv \in Globals : GetObjectNodeFor(Leaf(gv))
  \/ \E f \in FunctionPtrs : GetReturnNodeFor(f)
  \/ \E f \in FunctionPtrs : GetVarargNodeFor(f)
  \/ Return

Spec == Init /\ [][Next]_vars

\* what the constant lookups are handed
ConstValues == {"g", nullptr}

\* constant resolution over a factory that has identified some objects
NextConst ==
  \/ \E val \in While(MaxConstCreates, ConstValues) : CreateValueNode(val)
  \/ \E val \in While(MaxConstCreates, ConstValues) : CreateObjectNode(val)
  \/ SetDataLayout
  \/ \E c \in Constants : GetValueNodeFor(c)
  \/ \E c \in Constants : GetObjectNodeFor(c)
  \/ Return

SpecConst == Init /\ [][NextConst]_vars

\* what offsetToFieldNum is handed: a pointer to any of the types, a byte offset
Offsets == 0 .. MaxOffset

NextOffset ==
  \/ SetDataLayout
  \/ \E pointee \in TypeNames, off \in Offsets : CallOffsetToFieldNum(pointee, off)
  \/ LoopExit
  \/ StructStep
  \/ ScalarStep
  \/ OffsetReturn

SpecOffset == Init /\ [][NextOffset]_vars

\* a call that has started runs on: the function is sequential code
FairSpecOffset == SpecOffset /\ WF_vars(LoopExit \/ StructStep \/ ScalarStep)

\* the constraint sets explored: at most MaxConstraints constraints
NextSolver ==
  \/ \E c \in (IF Cardinality(constraints) < MaxConstraints THEN WellFormedConstraints ELSE {}) :
       CollectConstraint(c)
  \/ StartSolving
  \/ \E n \in SolverNodes : SolveStep(n)
  \/ ReachFixedPoint

SpecSolver == Init /\ [][NextSolver]_vars

\* the solving phase is a loop that runs until the worklist is empty
FairSpecSolver ==
  SpecSolver /\ WF_vars(\E n \in SolverNodes : SolveStep(n)) /\ WF_vars(ReachFixedPoint)

(***************************************************************************)
(* The claims.                                                             *)
(***************************************************************************)
CreateOps == {"createValueNode", "createObjectNode", "createReturnNode", "createVarargNode"}

LookupOps == {"getValueNodeFor", "getObjectNodeFor", "getReturnNodeFor", "getVarargNodeFor"}

\* this step is a call of one of ops (calls start from the idle position)
Calls(ops) == call = Idle /\ call'.op \in ops

ReservedKinds == <<VALUE_NODE, OBJ_NODE, VALUE_NODE, OBJ_NODE, VALUE_NODE>>

ReservedInPlace ==
  /\ Len(nodes) >= 5
  /\ \A i \in 0 .. 4 : NodeAt(i).idx = i /\ NodeAt(i).type = ReservedKinds[i + 1]

\* C1: right after construction the table holds exactly the five nodes 0..4 of
\* kinds VALUE, OBJECT, VALUE, OBJECT, VALUE; these entries stay as they are in
\* every later state, and every index a creation call returns is at least 5.
C1_ReservedNodes ==
  /\ created = {} /\ call = Idle => Len(nodes) = 5
  /\ ReservedInPlace
  /\ \A r \in created : r.idx >= 5
  /\ call.op \in CreateOps /\ call.res.ok => call.res.idx >= 5

\* C1 witness: a creation call has returned and the table has grown past the reserved nodes
C1_Witness ==
  /\ call.op \in CreateOps
  /\ call.res.ok
  /\ Len(nodes) = NumReserved + MaxCreates
  /\ ReservedInPlace

\* whether creation op registers entity e in its map
Registers(op, e) == e # nullptr \/ op \in {"createReturnNode", "createVarargNode"}

AlreadyCreated(op, e) == \E r \in created : r.op = op /\ r.ent = e

\* C2 as amended: a creation call fails, aborting the run, exactly when the
\* same operation already returned for the same entity and the operation
\* registers that entity: value and object creation register every non-empty
\* entity, return and vararg creation register every function pointer, the
\* empty one too.  What the other three operations created does not matter.
C2_Uniqueness ==
  [][Calls(CreateOps) =>
       LET op == call'.op
           e == call'.arg.leaf
       IN  /\ call'.res.ok <=> ~(Registers(op, e) /\ AlreadyCreated(op, e))
           /\ aborted' <=> ~call'.res.ok]_vars

\* C2 as stated: a second creation for the same non-empty entity fails, a first
\* one succeeds whatever the other maps hold, and creation with an empty entity
\* never fails.
C2_AsStated ==
  [][Calls(CreateOps) =>
       LET op == call'.op
           e == call'.arg.leaf
       IN  /\ e # nullptr /\ AlreadyCreated(op, e) => ~call'.res.ok /\ aborted'
           /\ e # nullptr /\ ~AlreadyCreated(op, e) => call'.res.ok
           /\ e = nullptr => call'.res.ok]_vars

\* C2 witness: one entity is registered in three of the maps, and a second
\* creation for it has just failed
C2_Witness ==
  /\ Cardinality({op \in CreateOps : AlreadyCreated(op, "f")}) = 3
  /\ call.op \in CreateOps
  /\ call.arg = Leaf("f")
  /\ ~call.res.ok
  /\ aborted

\* C3: a creation call that returns hands back the table size as it was before
\* the call and appends exactly one node that records this index; so the
\* indices returned so far are exactly 5, 6, ..., one each, and position i of
\* the table always records index i; lookups change neither table nor maps.
C3_MonotonicIndexing ==
  /\ [](/\ \A i \in 0 .. Len(nodes) - 1 : NodeAt(i).idx = i
        /\ \A r1, r2 \in created : r1.idx = r2.idx => r1 = r2
        /\ {r.idx : r \in created} = 5 .. (4 + Cardinality(created))
        /\ ~aborted => Len(nodes) = 5 + Cardinality(created))
  /\ [][/\ Calls(CreateOps) /\ call'.res.ok =>
             /\ call'.res.idx = Len(nodes)
             /\ Len(nodes') = Len(nodes) + 1
             /\ SubSeq(nodes', 1, Len(nodes)) = nodes
             /\ nodes'[Len(nodes')].idx = call'.res.idx
             /\ \A r \in created : r.idx < call'.res.idx
        /\ Calls(LookupOps) =>
             UNCHANGED <<nodes, valueNodeMap, objNodeMap, returnMap, varargMap>>]_vars

\* C3 witness: creation calls of all four kinds have returned, interleaved
C3_Witness ==
  /\ {r.op : r \in created} = CreateOps
  /\ Len(nodes) = NumReserved + MaxCreates
  /\ call.op \in LookupOps

\* a call of the lookup op on a constant that is no global has returned or aborted
Resolved(op) == call.op = op /\ ~isGlobalValue(call.arg)

\* C4 as stated: getValueNodeForConstant gives the Null Value node (2) for a
\* null or undefined pointer constant, the Universal Value node (0) for an
\* integer-to-pointer cast, the Int Value node (4) for a pointer-to-integer
\* cast, its operand's result for a pointer bit-cast, and is fatal for a
\* constant structured access and for any other constant expression.
C4_AsStated ==
  Resolved("getValueNodeFor") =>
    LET c == call.arg
    IN  /\ isConstantPointerNull(c) \/ isUndefValue(c) => call.res = Returned(2)
        /\ isConstantExpr(c) =>
             /\ getOpcode(c) = "inttoptr" => call.res = Returned(0)
             /\ getOpcode(c) = "ptrtoint" => call.res = Returned(4)
             /\ getOpcode(c) = "bitcast" /\ isPointerTy(c) =>
                  call.res = getValueNodeForConstant(getOperand0(c))
             /\ getOpcode(c) \in {"gep", "addrspacecast"} => ~call.res.ok /\ aborted

\* C4 without its pointer-to-integer case, which is the one the code departs
\* from: such a constant has an integer type, and the entry assertion aborts.
C4_ExceptPtrToInt ==
  Resolved("getValueNodeFor") =>
    LET c == call.arg
    IN  /\ isConstantPointerNull(c) \/ isUndefValue(c) => call.res = Returned(2)
        /\ isConstantExpr(c) =>
             /\ getOpcode(c) = "inttoptr" => call.res = Returned(0)
             /\ getOpcode(c) = "ptrtoint" => ~call.res.ok /\ aborted
             /\ getOpcode(c) = "bitcast" /\ isPointerTy(c) =>
                  call.res = getValueNodeForConstant(getOperand0(c))
             /\ getOpcode(c) \in {"gep", "addrspacecast"} => ~call.res.ok /\ aborted

\* C5 as amended: getObjectNodeForConstant gives the Null Object node (3) for
\* a null pointer constant, the Universal Object node (1) for an
\* integer-to-pointer cast, its operand's result for a pointer bit-cast, and
\* for a constant structured access whose base resolves to the Null or the
\* Universal object that same node whatever the offset; an undefined pointer
\* constant, which the value-node rules accept, is fatal here.
C5_ObjectConstants ==
  Resolved("getObjectNodeFor") =>
    LET c == call.arg
    IN  /\ isConstantPointerNull(c) => call.res = Returned(3)
        /\ isUndefValue(c) => ~call.res.ok /\ aborted
        /\ isConstantExpr(c) =>
             /\ getOpcode(c) = "inttoptr" => call.res = Returned(1)
             /\ getOpcode(c) = "bitcast" /\ isPointerTy(c) =>
                  call.res = getObjectNodeForConstant(getOperand0(c))
             /\ getOpcode(c) = "gep" =>
                  \A sentinel \in {1, 3} :
                    getObjectNodeForConstant(getOperand0(c)) = Returned(sentinel) =>
                      call.res = Returned(sentinel)

\* C5 as stated: getObjectNodeForConstant mirrors the value-node rules: the
\* Null Object node (3) for a null or undefined pointer constant, the Universal
\* Object node (1) for an integer-to-pointer cast, its operand's result for a
\* pointer bit-cast, and for a constant structured access whose base resolves
\* to the Null or the Universal object that same node whatever the offset.
C5_AsStated ==
  Resolved("getObjectNodeFor") =>
    LET c == call.arg
    IN  /\ isConstantPointerNull(c) \/ isUndefValue(c) => call.res = Returned(3)
        /\ isConstantExpr(c) =>
             /\ getOpcode(c) = "inttoptr" => call.res = Returned(1)
             /\ getOpcode(c) = "bitcast" /\ isPointerTy(c) =>
                  call.res = getObjectNodeForConstant(getOperand0(c))
             /\ getOpcode(c) = "gep" =>
                  \A sentinel \in {1, 3} :
                    getObjectNodeForConstant(getOperand0(c)) = Returned(sentinel) =>
                      call.res = Returned(sentinel)

\* C5 witness: a structured access at a nonzero offset over an
\* integer-to-pointer cast has resolved to the Universal Object node
C5_Witness ==
  /\ Resolved("getObjectNodeFor")
  /\ isConstantExpr(call.arg)
  /\ getOpcode(call.arg) = "gep"
  /\ getIndexedOffset(call.arg) > 0
  /\ isConstantExpr(getOperand0(call.arg))
  /\ getOpcode(getOperand0(call.arg)) = "inttoptr"
  /\ call.res = Returned(1)

RECURSIVE SumOfOffsets(_)
\* the byte offsets of all the structured accesses of a constant, added up
SumOfOffsets(wraps) ==
  IF wraps = <<>> THEN 0
  ELSE (IF wraps[Len(wraps)].op = "gep" THEN wraps[Len(wraps)].off ELSE 0)
         + SumOfOffsets(SubSeq(wraps, 1, Len(wraps) - 1))

\* a structured access whose base, below bit-casts, is again a structured
\* access, all of it on the global g
IsChainedAccess(c) ==
  /\ c.leaf = "g"
  /\ Len(c.wraps) >= 2
  /\ \A i \in 1 .. Len(c.wraps) : c.wraps[i].op \in {"gep", "bitcast"}
  /\ c.wraps[Len(c.wraps)].op = "gep"
  /\ c.wraps[1].op = "gep"
  /\ Cardinality({i \in 1 .. Len(c.wraps) : c.wraps[i].op = "gep"}) = 2

\* object identification has given g an object node, followed by the nodes of
\* its further fields
Identified(gv) ==
  /\ gv \in DOMAIN objNodeMap
  /\ \A k \in 0 .. NumFields(GlobalType(gv)) - 1 :
       /\ objNodeMap[gv] + k < Len(nodes)
       /\ NodeAt(objNodeMap[gv] + k).type = OBJ_NODE

\* C10 as stated: a chained constant structured access on a global g with an
\* object node resolves to the node of the single access at the summed byte
\* offset, objectNode(g) + fieldNumber(g, off1 + off2), inside g's field range.
C10_AsStated ==
  /\ Resolved("getObjectNodeFor")
  /\ IsChainedAccess(call.arg)
  /\ Identified("g")
  /\ dataLayout # NULL
  => /\ call.res =
          Returned(objNodeMap["g"]
                     + offsetToFieldNum(GlobalType("g"), SumOfOffsets(call.arg.wraps)))
     /\ call.res.idx < objNodeMap["g"] + NumFields(GlobalType("g"))

\* what the code does on a chained access: the inner access's field number is
\* added once when the base is resolved and once more inside the field number
\* of the summed offset
C10_InnerCountedTwice ==
  /\ Resolved("getObjectNodeFor")
  /\ IsChainedAccess(call.arg)
  /\ Identified("g")
  /\ dataLayout # NULL
  => call.res =
       Returned(objNodeMap["g"]
                  + offsetToFieldNum(GlobalType("g"), call.arg.wraps[1].off)
                  + offsetToFieldNum(GlobalType("g"), SumOfOffsets(call.arg.wraps)))

\* offsetToFieldNum is about to return
Returning == loop.at = "return"

RECURSIVE IsFieldStart(_, _)
\* byte offset off inside type t is where a field (at any nesting depth) starts
IsFieldStart(t, off) ==
  /\ off < getTypeAllocSize(t)
  /\ CASE TypeTable[t].kind = "scalar" -> off = 0
       [] TypeTable[t].kind = "array"  ->
            IsFieldStart(TypeTable[t].elem, off % getTypeAllocSize(TypeTable[t].elem))
       [] TypeTable[t].kind = "struct" ->
            LET idx == getElementContainingOffset(t, off)
            IN  IsFieldStart(getElementType(t, idx), off - getElementOffset(t, idx))

RECURSIVE PathSum(_, _)
\* the ordinals of the elements that contain off, added up along the path from
\* type t down to the field
PathSum(t, off) ==
  CASE TypeTable[t].kind = "scalar" -> 0
    [] TypeTable[t].kind = "array"  ->
         PathSum(TypeTable[t].elem, off % getTypeAllocSize(TypeTable[t].elem))
    [] TypeTable[t].kind = "struct" ->
         LET idx == getElementContainingOffset(t, off)
         IN  StructInfoGetOffset(t, idx)
               + PathSum(getElementType(t, idx), off - getElementOffset(t, idx))

\* the structure of the example: two fields, at byte offsets 0 and 8, ordinals 0 and 1
IsTwoFieldExample(t) ==
  /\ isStructTy(t)
  /\ NumElements(t) = 2
  /\ getElementOffset(t, 0) = 0 /\ getElementOffset(t, 1) = 8
  /\ StructInfoGetOffset(t, 0) = 0 /\ StructInfoGetOffset(t, 1) = 1

\* C6: on a pointer to a structure, offsetToFieldNum returns for the byte
\* offset of a field start the sum of the ordinals of the containing elements
\* along the path to the field, and 0 for offset 0; on the two-field structure
\* with fields at 0 and 8, offset 8 gives field number 1 and offset 0 gives 0.
C6_FieldNumber ==
  Returning /\ isStructTy(otfCall.pointee) =>
    /\ IsFieldStart(otfCall.pointee, otfCall.offset) =>
         loop.ret = PathSum(otfCall.pointee, otfCall.offset)
    /\ otfCall.offset = 0 => loop.ret = 0
    /\ IsTwoFieldExample(otfCall.pointee) /\ otfCall.offset = 8 => loop.ret = 1

\* C6 witness: the call on the two-field structure at byte offset 8 returns 1,
\* which names the node after the object's first
C6_Witness ==
  /\ Returning
  /\ IsTwoFieldExample(otfCall.pointee)
  /\ otfCall.offset = 8
  /\ loop.ret = 1
  /\ \A O \in 5 .. 6 : getOffsetObjectNode(O, loop.ret) = Returned(O + 1)

\* an array, at any nesting depth of arrays, of scalars
IsArrayOfScalars(t) == isArrayTy(t) /\ TypeTable[CollapseArray(t)].kind = "scalar"

\* C7: on a pointer to an array of scalars of element size s the field number
\* of byte offset k * s is 0 for every k, so that of element k and of element
\* k + 1 are the same; on a pointer to an array of structures, offsets that
\* differ by a multiple of the element's allocation size give the same field
\* number.
C7_ArrayCollapse ==
  Returning /\ isArrayTy(otfCall.pointee) =>
    LET elem == CollapseArray(otfCall.pointee)
        s == getTypeAllocSize(elem)
    IN  /\ IsArrayOfScalars(otfCall.pointee) /\ otfCall.offset % s = 0 =>
             /\ loop.ret = 0
             /\ offsetToFieldNum(otfCall.pointee, otfCall.offset + s) = loop.ret
        /\ isStructTy(elem) =>
             \A other \in Offsets :
               (other - otfCall.offset) % s = 0 =>
                 offsetToFieldNum(otfCall.pointee, other) = loop.ret

\* C7 witness: an access into the second element of an array of structures
\* returns the field number of the same place in the first
C7_Witness ==
  /\ Returning
  /\ otfCall.pointee = "ArrOuter"
  /\ otfCall.offset = getTypeAllocSize("Outer") + 8
  /\ loop.ret = 2
  /\ offsetToFieldNum("ArrOuter", 8) = 2

\* the loop is at a type that is no structure with an offset that the
\* reduction leaves nonzero
InsideAField ==
  /\ loop.at = "test"
  /\ loop.offset > 0
  /\ ~isStructTy(CollapseArray(loop.trueElemType))
  /\ ReduceOffset(loop.offset, CollapseArray(loop.trueElemType)) # 0

\* C8: when the loop reaches a type that is no structure with a nonzero
\* remaining offset it stops, warns and returns the field number accumulated
\* so far, which is 0 when the pointee is a scalar; a warning is only ever
\* given there; and every call, on any type and offset, comes to its return.
C8_MiddleOfField ==
  /\ [][InsideAField => loop'.at = "return" /\ loop'.warned /\ loop'.ret = loop.ret]_vars
  /\ [][loop'.warned /\ ~loop.warned => InsideAField]_vars
  /\ [](Returning /\ TypeTable[otfCall.pointee].kind = "scalar" => loop.ret = 0)
  /\ (loop.at = "test" ~> Returning)

\* C8 witness: a call into the middle of a field of a nested structure returns,
\* warned, with the ordinal it had accumulated
C8_Witness ==
  /\ Returning
  /\ loop.warned
  /\ otfCall.pointee = "Outer"
  /\ otfCall.offset = 10
  /\ loop.ret = 2

\* the two-pointer scenario: value nodes Vp = 1, Vq = 2, object node Op = 3;
\* Vp takes the address of Op, and q = p copies Vp into Vq
ScenarioConstraints ==
  {AndersConstraint(ADDR_OF, 1, 3), AndersConstraint(COPY, 2, 1)}

\* C9: from every well-formed constraint set the solver comes to its fixed
\* point, and there points-to(B) is part of points-to(A) for every COPY
\* constraint A >= B; on the scenario both points-to sets are {Op}.
C9_CopySoundness ==
  /\ [](phase = "fixed point" =>
          /\ \A c \in constraints : c.type = COPY => ptsTo[c.src] \subseteq ptsTo[c.dest]
          /\ constraints = ScenarioConstraints => ptsTo[1] = {3} /\ ptsTo[2] = {3})
  /\ (phase = "iterating" ~> phase = "fixed point")

\* C9 witness: the scenario is solved
C9_Witness ==
  /\ phase = "fixed point"
  /\ constraints = ScenarioConstraints
  /\ ptsTo[2] = {3}

====
